---- MODULE Spec2Model ----
(***************************************************************************)
(* A model of demo.py: the DataContainer (grid, meshgrid, field registry), *)
(* the two analytic profiles r2_density and keplerian_rotation, and        *)
(* make_contourmap.                                                        *)
(*                                                                         *)
(* Numbers.  A float is modelled as an exact rational <<n, d>> in lowest   *)
(* terms with d > 0; d = 0 marks the non-finite floats: <<1,0>> is +inf,   *)
(* <<-1,0>> is -inf and <<0,0>> is NaN.  Velocity components involve       *)
(* half-integer powers, so they are 4-tuples <<n, d, ei, er>> standing for *)
(* (n/d) * |inner_r|^(ei/2) * radius_xy^(er/2) at the cell they belong to. *)
(* Python sequences are 0-based; TLA+ sequences are 1-based, so the code's *)
(* resolution[0] is resolution[1] here.  Array indices stay 0-based.       *)
(***************************************************************************)
EXTENDS Integers, Sequences, FiniteSets, TLC

VARIABLES
    constructed,   \* a DataContainer object exists
    resolution,    \* self.resolution
    dimensions,    \* self.dimensions
    dataset_name,  \* self.dataset_name
    field_list,    \* self.field_list
    fields,        \* self.fields: a function from field names to arrays
    dxyz,          \* self.dxyz
    mesh,          \* <<>> while self.xx/yy/zz are unset, else <<[xx, yy, zz]>>
    ret,           \* the most recent call: its arguments and its outcome
    image,         \* <<>> while test.svg is unwritten, else <<what was drawn>>
    stored         \* history: the array last passed to set_field, per name

vars == <<constructed, resolution, dimensions, dataset_name, field_list,
          fields, dxyz, mesh, ret, image, stored>>

---------------------------------------------------------------------------
(* Bounds of the model. *)

MaxN == 3
MaxLevels == 2
MaxStride == 3

---------------------------------------------------------------------------
(* Exact arithmetic on floats-as-rationals. *)

Abs(n) == IF n < 0 THEN -n ELSE n

Sign(n) == IF n < 0 THEN -1 ELSE IF n > 0 THEN 1 ELSE 0

RECURSIVE Gcd(_, _)
Gcd(a, b) == IF b = 0 THEN a ELSE Gcd(b, a % b)

Norm(n, d) ==
    IF d = 0 THEN <<Sign(n), 0>>
    ELSE LET g == Gcd(Abs(n), Abs(d))
         IN  <<(Sign(d) * n) \div g, Abs(d) \div g>>

Rat(n) == <<n, 1>>
Frac(n, d) == Norm(n, d)
Inf == <<1, 0>>
NaN == <<0, 0>>

IsFinite(a) == a[2] # 0
IsNaN(a) == a[1] = 0 /\ a[2] = 0

RNeg(a) == <<-a[1], a[2]>>

RMul(a, b) == Norm(a[1] * b[1], a[2] * b[2])

RAdd(a, b) ==
    IF IsFinite(a) /\ IsFinite(b) THEN Norm(a[1] * b[2] + b[1] * a[2], a[2] * b[2])
    ELSE IF IsNaN(a) \/ IsNaN(b) THEN NaN
    ELSE IF ~IsFinite(a) /\ ~IsFinite(b) THEN (IF a = b THEN a ELSE NaN)
    ELSE IF ~IsFinite(a) THEN a ELSE b

RSub(a, b) == RAdd(a, RNeg(b))

\* numpy's elementwise a / b under errstate(divide='ignore', invalid='ignore'):
\* x/0 is +-inf, 0/0 is NaN.
RDiv(a, b) ==
    RMul(a, IF b[1] = 0 THEN (IF b[2] = 0 THEN NaN ELSE Inf)
            ELSE Norm(Sign(b[1]) * b[2], Abs(b[1])))

RSq(a) == RMul(a, a)

\* Comparisons of finite values; any comparison with NaN is false.
RLe(a, b) ==
    /\ ~IsNaN(a) /\ ~IsNaN(b)
    /\ IF IsFinite(a) /\ IsFinite(b) THEN a[1] * b[2] <= b[1] * a[2]
       ELSE IF IsFinite(a) THEN b[1] > 0
       ELSE IF IsFinite(b) THEN a[1] < 0
       ELSE a[1] <= b[1]

RLt(a, b) == RLe(a, b) /\ a # b

---------------------------------------------------------------------------
(* Half-integer powers: <<n, d, ei, er>> is (n/d) * |inner_r|^(ei/2) *     *)
(* radius_xy^(er/2).  Exponents attach to positive bases only; a zero or   *)
(* non-finite coefficient carries none.                                    *)

SNorm(c, ei, er) ==
    IF c[1] = 0 \/ c[2] = 0 THEN <<c[1], c[2], 0, 0>> ELSE <<c[1], c[2], ei, er>>

Coef(s) == <<s[1], s[2]>>

FromRat(a) == <<a[1], a[2], 0, 0>>

SMul(a, b) == SNorm(RMul(Coef(a), Coef(b)), a[3] + b[3], a[4] + b[4])

SDiv(a, b) == SNorm(RDiv(Coef(a), Coef(b)), a[3] - b[3], a[4] - b[4])

SNeg(a) == <<-a[1], a[2], a[3], a[4]>>

\* x ** (3/2) as C's pow gives it: NaN for a negative finite base, +inf for
\* either infinity, 0 for 0.  The bases that occur have coefficient 1 when
\* positive and finite (inner_r / radius_xy with both positive).
SPow32(s) ==
    LET c == Coef(s) IN
    IF IsNaN(c) THEN FromRat(NaN)
    ELSE IF ~IsFinite(c) THEN FromRat(Inf)
    ELSE IF c[1] < 0 THEN FromRat(NaN)
    ELSE IF c[1] = 0 THEN FromRat(Rat(0))
    ELSE <<c[1], c[2], (3 * s[3]) \div 2, (3 * s[4]) \div 2>>

---------------------------------------------------------------------------
(* Arrays: a shape and the values at its 0-based index tuples. *)

RECURSIVE Indices(_)
Indices(shape) ==
    IF shape = <<>> THEN {<<>>}
    ELSE {<<i>> \o t : i \in 0 .. (shape[1] - 1), t \in Indices(Tail(shape))}

Array(shape, f(_)) == [shape |-> shape, data |-> [ix \in Indices(shape) |-> f(ix)]]

Zero(ix) == IF Len(ix) = 4 THEN FromRat(Rat(0)) ELSE Rat(0)

\* np.zeros(shape)
Zeros(shape) == Array(shape, Zero)

None == <<>>
Some(x) == <<x>>

EmptyDict == [n \in {} |-> None]

\* The record of a call, before its arguments and outcome are filled in.
NoCall ==
    [op |-> "none", status |-> "ok", value |-> None, location |-> <<>>,
     inner_r |-> Rat(0), amp |-> Rat(0), name |-> "", levels |-> 0, step |-> 0]

---------------------------------------------------------------------------
(* DataContainer.__init__ *)

\* zip(self.dimensions, self.resolution) stops at the shorter sequence.
ZipLen(dims, res) == IF Len(dims) < Len(res) THEN Len(dims) ELSE Len(res)

\* a / b on Python numbers raises ZeroDivisionError when b is 0.
DxyzRaises(res, dims) == \E i \in 1 .. ZipLen(dims, res) : res[i] = 0

Dxyz(res, dims) == [i \in 1 .. ZipLen(dims, res) |-> RDiv(dims[i], Rat(res[i]))]

Construct(res, dims, dname, flist) ==
    IF DxyzRaises(res, dims)
    THEN /\ ret' = [NoCall EXCEPT !.op = "__init__", !.status = "ZeroDivisionError"]
         /\ UNCHANGED <<constructed, resolution, dimensions, dataset_name,
                        field_list, fields, dxyz, mesh, image, stored>>
    ELSE /\ constructed' = TRUE
         /\ resolution' = res
         /\ dimensions' = dims
         /\ dataset_name' = dname
         /\ field_list' = flist
         /\ fields' = EmptyDict
         /\ dxyz' = Dxyz(res, dims)
         /\ mesh' = None
         /\ stored' = EmptyDict
         /\ ret' = [NoCall EXCEPT !.op = "__init__"]
         /\ UNCHANGED image

---------------------------------------------------------------------------
(* DataContainer.get_meshgrid *)

\* np.linspace(0, stop, num): num samples from 0 to stop inclusive; the single
\* sample of num = 1 is the start, 0.
\* Mutant: the spacing stop / num of linspace(..., endpoint=False), which is
\* also the cell size dxyz.
Linspace_NoEndpoint(stop, num) ==
    [i \in 0 .. (num - 1) |-> RMul(Rat(i), RDiv(stop, Rat(num)))]

Linspace(stop, num) ==
    [i \in 0 .. (num - 1) |->
        IF num = 1 THEN Rat(0) ELSE RMul(Rat(i), RDiv(stop, Rat(num - 1)))]

\* Mutant: np.meshgrid's default indexing='xy', whose first two axes are swapped.
Meshgrid_XY(x, y, z) ==
    LET shape == <<Cardinality(DOMAIN y), Cardinality(DOMAIN x), Cardinality(DOMAIN z)>>
        fx(ix) == x[ix[2]]
        fy(ix) == y[ix[1]]
        fz(ix) == z[ix[3]]
    IN  [xx |-> Array(shape, fx), yy |-> Array(shape, fy), zz |-> Array(shape, fz)]

\* np.meshgrid(x, y, z, indexing='ij'): axis 0 follows x, axis 1 y, axis 2 z.
Meshgrid(x, y, z) ==
    LET shape == <<Cardinality(DOMAIN x), Cardinality(DOMAIN y), Cardinality(DOMAIN z)>>
        fx(ix) == x[ix[1]]
        fy(ix) == y[ix[2]]
        fz(ix) == z[ix[3]]
    IN  [xx |-> Array(shape, fx), yy |-> Array(shape, fy), zz |-> Array(shape, fz)]

MeshgridStatus(res, dims) ==
    IF Len(dims) < 3 \/ Len(res) < 3 THEN "IndexError"
    ELSE IF \E i \in 1 .. 3 : res[i] < 0 THEN "ValueError"
    ELSE "ok"

GetMeshgrid ==
    /\ constructed
    /\ LET st == MeshgridStatus(resolution, dimensions) IN
       /\ ret' = [NoCall EXCEPT !.op = "get_meshgrid", !.status = st]
       /\ mesh' = IF st = "ok"
                  THEN Some(Meshgrid(Linspace(dimensions[1], resolution[1]),
                                     Linspace(dimensions[2], resolution[2]),
                                     Linspace(dimensions[3], resolution[3])))
                  ELSE mesh
    /\ UNCHANGED <<constructed, resolution, dimensions, dataset_name, field_list,
                   fields, dxyz, image, stored>>

---------------------------------------------------------------------------
(* r2_density *)

\* radius <= inner_r, with radius = sqrt(radius2) >= 0.
RadiusLe(radius2, inner_r) ==
    /\ RLe(Rat(0), inner_r)
    /\ RLe(radius2, RSq(inner_r))

\* Mutant: the unnormalised falloff max_density / r^2.
R2DensityValue_Unnormalized(radius2, inner_r, max_density) ==
    IF RadiusLe(radius2, inner_r) THEN max_density
    ELSE RDiv(max_density, radius2)

\* Mutant: the ratio upside down, (r / inner_r)^2.
R2DensityValue_Inverted(radius2, inner_r, max_density) ==
    IF RadiusLe(radius2, inner_r) THEN max_density
    ELSE RMul(max_density, RDiv(radius2, RSq(inner_r)))

R2DensityValue(radius2, inner_r, max_density) ==
    IF RadiusLe(radius2, inner_r) THEN max_density
    ELSE RMul(max_density, RDiv(RSq(inner_r), radius2))

Radius2(m, location, ix) ==
    RAdd(RAdd(RSq(RSub(m.xx.data[ix], location[1])),
              RSq(RSub(m.yy.data[ix], location[2]))),
         RSq(RSub(m.zz.data[ix], location[3])))

R2DensityArray(m, location, inner_r, max_density) ==
    LET f(ix) == R2DensityValue(Radius2(m, location, ix), inner_r, max_density)
    IN  Array(m.xx.shape, f)

R2Density(location, inner_r, max_density) ==
    /\ constructed
    /\ ret' = IF mesh = None
              THEN [NoCall EXCEPT !.op = "r2_density", !.status = "AttributeError",
                                  !.location = location, !.inner_r = inner_r,
                                  !.amp = max_density]
              ELSE [NoCall EXCEPT !.op = "r2_density", !.location = location,
                                  !.inner_r = inner_r, !.amp = max_density,
                                  !.value = Some(R2DensityArray(mesh[1], location,
                                                                inner_r, max_density))]
    /\ UNCHANGED <<constructed, resolution, dimensions, dataset_name, field_list,
                   fields, dxyz, mesh, image, stored>>

---------------------------------------------------------------------------
(* keplerian_rotation *)

RadiusXY2(dx, dy) == RAdd(RSq(dx), RSq(dy))

\* radius_xy and inner_r as powers of themselves.
RadiusOf(radius2) == IF radius2 = Rat(0) THEN FromRat(Rat(0)) ELSE <<1, 1, 0, 2>>

InnerOf(inner_r) == SNorm(<<Sign(inner_r[1]), 1>>, 2, 0)

Omega(radius2, inner_r, max_omega) ==
    IF RadiusLe(radius2, inner_r) THEN FromRat(max_omega)
    ELSE SMul(FromRat(max_omega), SPow32(SDiv(InnerOf(inner_r), RadiusOf(radius2))))

\* sin and cos of phi = atan2(dy, dx); atan2(0, 0) is 0.
SinPhi(dx, dy) ==
    IF RadiusXY2(dx, dy) = Rat(0) THEN FromRat(Rat(0)) ELSE SNorm(dy, 0, -2)

CosPhi(dx, dy) ==
    IF RadiusXY2(dx, dy) = Rat(0) THEN FromRat(Rat(1)) ELSE SNorm(dx, 0, -2)

VAzimuth(dx, dy, inner_r, max_omega) ==
    SMul(RadiusOf(RadiusXY2(dx, dy)), Omega(RadiusXY2(dx, dy), inner_r, max_omega))

\* Mutant: the minus sign of v_x dropped.
VelocityX_NoMinus(dx, dy, inner_r, max_omega) ==
    SMul(VAzimuth(dx, dy, inner_r, max_omega), SinPhi(dx, dy))

VelocityX(dx, dy, inner_r, max_omega) ==
    SNeg(SMul(VAzimuth(dx, dy, inner_r, max_omega), SinPhi(dx, dy)))

VelocityY(dx, dy, inner_r, max_omega) ==
    SMul(VAzimuth(dx, dy, inner_r, max_omega), CosPhi(dx, dy))

KeplerianArray(res, m, location, inner_r, max_omega) ==
    LET dx(ix) == RSub(m.xx.data[<<ix[1], ix[2], ix[3]>>], location[1])
        dy(ix) == RSub(m.yy.data[<<ix[1], ix[2], ix[3]>>], location[2])
        f(ix) == IF ix[4] = 0 THEN VelocityX(dx(ix), dy(ix), inner_r, max_omega)
                 ELSE IF ix[4] = 1 THEN VelocityY(dx(ix), dy(ix), inner_r, max_omega)
                 ELSE Zero(ix)
    IN  Array(res \o <<3>>, f)

KeplerianRotation(location, inner_r, max_omega) ==
    /\ constructed
    /\ ret' = IF mesh = None
              THEN [NoCall EXCEPT !.op = "keplerian_rotation",
                                  !.status = "AttributeError",
                                  !.location = location, !.inner_r = inner_r,
                                  !.amp = max_omega]
              ELSE [NoCall EXCEPT !.op = "keplerian_rotation", !.location = location,
                                  !.inner_r = inner_r, !.amp = max_omega,
                                  !.value = Some(KeplerianArray(resolution, mesh[1],
                                                     location, inner_r, max_omega))]
    /\ UNCHANGED <<constructed, resolution, dimensions, dataset_name, field_list,
                   fields, dxyz, mesh, image, stored>>

---------------------------------------------------------------------------
(* DataContainer.set_field, and the read data.fields[name] *)

\* Mutant: the dictionary replaced by one holding the new entry alone.
SetItem_Replace(d, key, val) == [n \in {key} |-> val]

\* d[key] = val
SetItem(d, key, val) ==
    [n \in (DOMAIN d) \cup {key} |-> IF n = key THEN val ELSE d[n]]

SetField(field_name, field_array) ==
    /\ constructed
    /\ fields' = SetItem(fields, field_name, field_array)
    /\ stored' = [n \in (DOMAIN stored) \cup {field_name} |->
                     IF n = field_name THEN field_array ELSE stored[n]]
    /\ ret' = [NoCall EXCEPT !.op = "set_field", !.name = field_name]
    /\ UNCHANGED <<constructed, resolution, dimensions, dataset_name, field_list,
                   dxyz, mesh, image>>

\* d[key] raises KeyError when key is absent.
GetItemStatus(d, key) == IF key \in DOMAIN d THEN "ok" ELSE "KeyError"

GetItemValue(d, key) == IF key \in DOMAIN d THEN Some(d[key]) ELSE None

GetField(field_name) ==
    /\ constructed
    /\ ret' = [NoCall EXCEPT !.op = "get_field", !.name = field_name,
                             !.status = GetItemStatus(fields, field_name),
                             !.value = GetItemValue(fields, field_name)]
    /\ UNCHANGED <<constructed, resolution, dimensions, dataset_name, field_list,
                   fields, dxyz, mesh, image, stored>>

---------------------------------------------------------------------------
(* make_contourmap *)

\* a[:, :, 0] needs three axes and a non-empty third one.
PlaneRaises(a) == Len(a.shape) < 3 \/ a.shape[3] < 1

\* a[:, :, 0, 0] and a[:, :, 0, 1] need four axes, the last of size >= 2.
ComponentsRaise(a) == Len(a.shape) < 4 \/ a.shape[3] < 1 \/ a.shape[4] < 2

PlaneShape(a) == <<a.shape[1], a.shape[2]>>

\* len(range(0, n, step)) for step > 0: the rows or columns of X[::step].
Subsampled(n, step) == (n + step - 1) \div step

ArrowShape(plane, step) == <<Subsampled(plane[1], step), Subsampled(plane[2], step)>>

\* The first statement of make_contourmap that raises, or "ok"/"degenerate"
\* when none is known to: a figure of height 0 is accepted by plt.figure and
\* what savefig makes of it is the plotting library's business.  plt.figure
\* refuses a negative height, contourf a z that is not 2-D, smaller than 2 x 2
\* or shaped unlike X, a slice a step of 0, and quiver arrows shaped unlike X.
ContourmapStatus(dims, flds, m, levels, quiver_step) ==
    IF Len(dims) < 2 THEN "IndexError"
    ELSE IF dims[1] = Rat(0) THEN "ZeroDivisionError"
    ELSE IF "density" \notin DOMAIN flds THEN "KeyError"
    ELSE IF PlaneRaises(flds["density"]) THEN "IndexError"
    ELSE IF "velocity3" \notin DOMAIN flds THEN "KeyError"
    ELSE IF ComponentsRaise(flds["velocity3"]) THEN "IndexError"
    ELSE IF m = None THEN "AttributeError"
    ELSE IF PlaneRaises(m[1].xx) THEN "IndexError"
    ELSE IF RLt(RDiv(dims[2], dims[1]), Rat(0)) THEN "ValueError"
    ELSE IF Len(flds["density"].shape) # 3 THEN "TypeError"
    ELSE IF PlaneShape(flds["density"]) # PlaneShape(m[1].xx) THEN "TypeError"
    ELSE IF \E i \in 1 .. 2 : PlaneShape(m[1].xx)[i] < 2 THEN "TypeError"
    ELSE IF quiver_step = 0 THEN "ValueError"
    ELSE IF Len(flds["velocity3"].shape) # 4 THEN "ValueError"
    ELSE IF PlaneShape(flds["velocity3"]) # PlaneShape(m[1].xx) THEN "ValueError"
    ELSE IF dims[2] = Rat(0) THEN "degenerate"
    ELSE "ok"

Drawn(dims, m, levels, quiver_step) ==
    [levels |-> levels,
     arrows |-> ArrowShape(PlaneShape(m[1].xx), quiver_step),
     aspect |-> RDiv(dims[2], dims[1])]

MakeContourmap(levels, quiver_step) ==
    /\ constructed
    /\ LET st == ContourmapStatus(dimensions, fields, mesh, levels, quiver_step) IN
       \/ /\ st \in {"ok", "degenerate"}
          /\ image' = Some(Drawn(dimensions, mesh, levels, quiver_step))
          /\ ret' = [NoCall EXCEPT !.op = "make_contourmap", !.levels = levels,
                                   !.step = quiver_step]
       \/ /\ st # "ok"
          /\ image' = image
          /\ ret' = [NoCall EXCEPT !.op = "make_contourmap", !.levels = levels,
                                   !.step = quiver_step,
                                   !.status = IF st = "degenerate" THEN "ValueError"
                                              ELSE st]
    /\ UNCHANGED <<constructed, resolution, dimensions, dataset_name, field_list,
                   fields, dxyz, mesh, stored>>

---------------------------------------------------------------------------
(* The inputs the calls are tried with. *)

Half == Frac(1, 2)
Tenth == Frac(1, 10)

\* Constructor arguments of the full workflow, the malformed ones included.
GridInputs ==
    {<<(<<3, 2, 1>>), (<<Rat(1), Rat(1), Rat(0)>>)>>,
     <<(<<3, 2, 1>>), (<<Rat(-1), Rat(1), Rat(0)>>)>>,
     <<(<<3, 2, 1>>), (<<Rat(1), Rat(1)>>)>>,
     <<(<<0, 2, 1>>), (<<Rat(1), Rat(1), Rat(0)>>)>>,
     <<(<<-1, 2, 1>>), (<<Rat(1), Rat(1), Rat(0)>>)>>,
     <<(<<2, 2>>), (<<Rat(1), Rat(1), Rat(0)>>)>>}

LocationInputs == {<<Half, Half, Rat(0)>>}

InnerInputs == {Half}

AmplitudeInputs == {Rat(1)}

FieldNames == {"density", "velocity3"}

LookupNames == FieldNames \cup {"pressure"}

ShapeInputs == {<<2, 2, 1>>}

\* The arrays a caller has at hand: the one the last call returned, or a fresh
\* np.zeros of some shape.
ArrayInputs ==
    {ret.value[i] : i \in 1 .. Len(ret.value)} \cup {Zeros(s) : s \in ShapeInputs}

LevelInputs == 1 .. MaxLevels

StrideInputs == 0 .. MaxStride

\* Valid grids for the profile evaluations.
ValidResolutions ==
    {<<nx, ny, nz>> : nx \in 1 .. MaxN, ny \in 1 .. MaxN, nz \in {1, 2}}

ValidDimensions ==
    {<<Rat(1), Rat(1), Rat(0)>>, <<Rat(2), Rat(1), Rat(1)>>}

\* The grid of the 5 x 5 x 1 scenario, besides.
ValidGrids ==
    (ValidResolutions \X ValidDimensions)
    \cup {<<(<<5, 5, 1>>), (<<Rat(1), Rat(1), Rat(0)>>)>>}

ProfileLocations == {<<Half, Half, Rat(0)>>, <<Rat(0), Rat(0), Rat(0)>>}

ProfileInners == {Rat(-1), Rat(0), Tenth, Half}

ProfileAmplitudes == {Rat(-1), Rat(1), Rat(2)}

---------------------------------------------------------------------------
(* The workflow: any sequence of calls on the container. *)

Init ==
    /\ constructed = FALSE
    /\ resolution = <<>>
    /\ dimensions = <<>>
    /\ dataset_name = ""
    /\ field_list = <<>>
    /\ fields = EmptyDict
    /\ dxyz = <<>>
    /\ mesh = None
    /\ ret = NoCall
    /\ image = None
    /\ stored = EmptyDict

DoConstruct ==
    \E g \in GridInputs :
        Construct(g[1], g[2], "radial_profile", <<"density", "velocity3">>)

DoR2Density ==
    \E loc \in LocationInputs, r \in InnerInputs, a \in AmplitudeInputs :
        R2Density(loc, r, a)

DoKeplerianRotation ==
    \E loc \in LocationInputs, r \in InnerInputs, a \in AmplitudeInputs :
        KeplerianRotation(loc, r, a)

DoSetField == \E n \in FieldNames, a \in ArrayInputs : SetField(n, a)

DoGetField == \E n \in LookupNames : GetField(n)

DoMakeContourmap == \E l \in LevelInputs, q \in StrideInputs : MakeContourmap(l, q)

Next ==
    \/ DoConstruct
    \/ GetMeshgrid
    \/ DoR2Density
    \/ DoKeplerianRotation
    \/ DoSetField
    \/ DoGetField
    \/ DoMakeContourmap

Spec == Init /\ [][Next]_vars

---------------------------------------------------------------------------
(* The profiles as functions of their inputs: a container constructed with *)
(* a valid resolution and extent, its meshgrid, and the two profiles at    *)
(* every combination of centre, inner radius and amplitude.                *)

InitProfiles ==
    \E g \in ValidGrids :
        /\ constructed = TRUE
        /\ resolution = g[1]
        /\ dimensions = g[2]
        /\ dataset_name = "radial_profile"
        /\ field_list = <<"density", "velocity3">>
        /\ fields = EmptyDict
        /\ dxyz = Dxyz(g[1], g[2])
        /\ mesh = None
        /\ ret = [NoCall EXCEPT !.op = "__init__"]
        /\ image = None
        /\ stored = EmptyDict

EvalR2Density ==
    \E loc \in ProfileLocations, r \in ProfileInners, a \in ProfileAmplitudes :
        R2Density(loc, r, a)

EvalKeplerianRotation ==
    \E loc \in ProfileLocations, r \in ProfileInners, a \in ProfileAmplitudes :
        KeplerianRotation(loc, r, a)

NextProfiles ==
    \/ GetMeshgrid
    \/ EvalR2Density
    \/ EvalKeplerianRotation

SpecProfiles == InitProfiles /\ [][NextProfiles]_vars

---------------------------------------------------------------------------
(* Properties. *)

Profiles == {"r2_density", "keplerian_rotation"}

Returned(op) == ret.op = op /\ ret.status = "ok" /\ ret.value # None

Cells == Indices(<<resolution[1], resolution[2], resolution[3]>>)

\* The coordinate of a cell, read from the meshgrid.
CellX(ix) == mesh[1].xx.data[ix]
CellY(ix) == mesh[1].yy.data[ix]
CellZ(ix) == mesh[1].zz.data[ix]

\* Squared Euclidean distance of a cell from the centre of the last call.
CellDist2(ix) ==
    RAdd(RAdd(RSq(RSub(CellX(ix), ret.location[1])),
              RSq(RSub(CellY(ix), ret.location[2]))),
         RSq(RSub(CellZ(ix), ret.location[3])))

\* Squared distance in the XY-plane.
CellDistXY2(ix) ==
    RAdd(RSq(RSub(CellX(ix), ret.location[1])), RSq(RSub(CellY(ix), ret.location[2])))

\* r <= inner_radius for a distance r >= 0 given by its square.
Within(r2) == RLe(Rat(0), ret.inner_r) /\ RLe(r2, RSq(ret.inner_r))

---------------------------------------------------------------------------
WellFormed ==
    /\ constructed
    /\ Len(resolution) = 3
    /\ Len(dimensions) = 3
    /\ \A i \in 1 .. Len(resolution) : resolution[i] >= 1
    /\ \A i \in 1 .. Len(dimensions) : RLe(Rat(0), dimensions[i])

\* C2: every stored array's first three axes equal the grid's resolution (a
\* set_field with another shape is refused and stores nothing); stated of the
\* well-formed grids.
C2_StoredShapesMatch ==
    WellFormed =>
        \A n \in DOMAIN fields :
            /\ Len(fields[n].shape) >= 3
            /\ SubSeq(fields[n].shape, 1, 3) = resolution

\* C3: r2_density gives max_density at every cell with r <= inner_radius and
\* max_density * (inner_radius / r)^2 at every cell with r > inner_radius (stated
\* as density * r^2 = max_density * inner_radius^2, for r > 0), and in the
\* 5 x 5 x 1 scenario 1 at cell (2,2,0) and 1/50 at cell (0,0,0).
C3_DensityProfile ==
    Returned("r2_density") =>
        LET a == ret.value[1] IN
        /\ a.shape = resolution
        /\ \A ix \in Cells :
              /\ Within(CellDist2(ix)) => a.data[ix] = ret.amp
              /\ (~Within(CellDist2(ix)) /\ CellDist2(ix) # Rat(0)) =>
                    /\ IsFinite(a.data[ix])
                    /\ RMul(a.data[ix], CellDist2(ix)) = RMul(ret.amp, RSq(ret.inner_r))
        /\ ( /\ resolution = <<5, 5, 1>>
             /\ dimensions = <<Rat(1), Rat(1), Rat(0)>>
             /\ ret.location = <<Half, Half, Rat(0)>>
             /\ ret.inner_r = Tenth
             /\ ret.amp = Rat(1) ) =>
                /\ a.data[<<2, 2, 0>>] = Rat(1)
                /\ a.data[<<0, 0, 0>>] = Frac(1, 50)

\* A density with a cell exactly at r = inner_radius, one strictly inside and
\* one outside.
C3_Witness ==
    /\ Returned("r2_density")
    /\ RLt(Rat(0), ret.inner_r)
    /\ ret.amp = Rat(2)
    /\ \E ix \in Cells : CellDist2(ix) = RSq(ret.inner_r)
    /\ \E ix \in Cells : RLt(CellDist2(ix), RSq(ret.inner_r))
    /\ \E ix \in Cells : RLt(RSq(ret.inner_r), CellDist2(ix))

C5_NonPositiveInnerRejected ==
    (ret.op \in Profiles /\ RLe(ret.inner_r, Rat(0))) => ret.value = None

\* C6: every grid that exists has three resolution entries, all >= 1, and
\* three dimensions, all >= 0.
C6_GridWellFormed == constructed => WellFormed

\* The largest value of an array.
ArrayMax(a) ==
    CHOOSE v \in {a.data[ix] : ix \in DOMAIN a.data} :
        \A ix \in DOMAIN a.data : RLe(a.data[ix], v)

MeshShaped ==
    /\ mesh[1].xx.shape = resolution
    /\ mesh[1].yy.shape = resolution
    /\ mesh[1].zz.shape = resolution
    /\ \A ix \in Cells :
          /\ CellX(ix) = CellX(<<ix[1], 0, 0>>)
          /\ CellY(ix) = CellY(<<0, ix[2], 0>>)
          /\ CellZ(ix) = CellZ(<<0, 0, ix[3]>>)

\* C7, as stated: the mesh has shape (nx,ny,nz), x-first, and the maximum
\* coordinate along every axis equals that axis's dimension.
C7_MaxEqualsDimension ==
    mesh # None =>
        /\ MeshShaped
        /\ ArrayMax(mesh[1].xx) = dimensions[1]
        /\ ArrayMax(mesh[1].yy) = dimensions[2]
        /\ ArrayMax(mesh[1].zz) = dimensions[3]

AxisExtent(i) == IF resolution[i] >= 2 THEN dimensions[i] ELSE Rat(0)

\* C7, amended: for a valid resolution and non-negative dimensions the mesh has
\* shape (nx,ny,nz), x-first, and the maximum coordinate along an axis equals
\* the axis's dimension when its resolution entry is >= 2 and 0 when it is 1.
C7_MaxEqualsDimensionOrZero ==
    mesh # None =>
        /\ MeshShaped
        /\ ArrayMax(mesh[1].xx) = AxisExtent(1)
        /\ ArrayMax(mesh[1].yy) = AxisExtent(2)
        /\ ArrayMax(mesh[1].zz) = AxisExtent(3)

\* A mesh with a single-sample axis of positive extent beside a longer axis.
C7_Witness ==
    /\ mesh # None
    /\ resolution[1] = 1
    /\ resolution[2] >= 3
    /\ RLt(Rat(0), dimensions[1])

\* The smaller dimension of the slice.
SliceExtent == IF resolution[1] < resolution[2] THEN resolution[1] ELSE resolution[2]

\* C8: a render with levels < 2, or with an arrow stride larger than the
\* slice's smaller dimension, does not succeed; stated of the well-formed
\* grids with their mesh.
C8_RenderRejects ==
    ( /\ ret.op = "make_contourmap"
      /\ WellFormed
      /\ mesh # None
      /\ (ret.levels < 2 \/ ret.step > SliceExtent) ) => ret.status # "ok"

\* C9: for inner_radius > 0 and max_density > 0, of two cells outside the inner
\* radius the nearer one has the strictly larger density.
C9_DensityMonotone ==
    ( /\ Returned("r2_density")
      /\ RLt(Rat(0), ret.inner_r)
      /\ RLt(Rat(0), ret.amp) ) =>
        \A ix \in Cells, jx \in Cells :
            ( /\ RLt(RSq(ret.inner_r), CellDist2(ix))
              /\ RLt(CellDist2(ix), CellDist2(jx)) ) =>
                RLt(ret.value[1].data[jx], ret.value[1].data[ix])

\* A density with three cells at increasing distances outside the inner radius.
C9_Witness ==
    /\ Returned("r2_density")
    /\ RLt(Rat(0), ret.inner_r)
    /\ ret.amp = Rat(2)
    /\ \E ix \in Cells, jx \in Cells, kx \in Cells :
          /\ RLt(RSq(ret.inner_r), CellDist2(ix))
          /\ RLt(CellDist2(ix), CellDist2(jx))
          /\ RLt(CellDist2(jx), CellDist2(kx))

\* C10, as stated: once a (well-formed) grid is constructed its mesh is
\* defined, so that a profile evaluated right after construction succeeds.
C10_MeshDefinedOnceConstructed ==
    WellFormed =>
        /\ mesh # None
        /\ ret.op \in Profiles => ret.status = "ok"

\* The mesh the resolution and dimensions determine: sample i of n along an
\* axis of extent L lies at i * L / (n - 1), and at 0 when n = 1.
MeshDetermined ==
    /\ MeshShaped
    /\ \A ix \in Cells :
          /\ RMul(CellX(ix), Rat(resolution[1] - 1)) =
                IF resolution[1] = 1 THEN Rat(0) ELSE RMul(Rat(ix[1]), dimensions[1])
          /\ RMul(CellY(ix), Rat(resolution[2] - 1)) =
                IF resolution[2] = 1 THEN Rat(0) ELSE RMul(Rat(ix[2]), dimensions[2])
          /\ RMul(CellZ(ix), Rat(resolution[3] - 1)) =
                IF resolution[3] = 1 THEN Rat(0) ELSE RMul(Rat(ix[3]), dimensions[3])
          /\ (resolution[1] = 1 => CellX(ix) = Rat(0))
          /\ (resolution[2] = 1 => CellY(ix) = Rat(0))
          /\ (resolution[3] = 1 => CellZ(ix) = Rat(0))

\* C10, amended: the mesh is undefined from construction until get_meshgrid
\* succeeds; from then on it is defined, equals the mesh determined by the
\* resolution and dimensions given at construction, and is changed by no later
\* get_meshgrid, set_field, read, profile evaluation or render; a profile
\* evaluation succeeds exactly when the mesh is defined.
C10_MeshDefinedAfterGetMeshgrid ==
    [][ /\ (mesh' # None => MeshDetermined')
        /\ ((ret'.op = "__init__" /\ ret'.status = "ok") => mesh' = None)
        /\ ((ret'.op = "get_meshgrid" /\ ret'.status = "ok") => mesh' # None)
        /\ ((mesh # None /\ ~(ret'.op = "__init__" /\ ret'.status = "ok"))
               => mesh' = mesh)
        /\ (ret'.op \in Profiles => (ret'.status = "ok" <=> mesh # None))
      ]_vars

\* The whole workflow has run: construct, get_meshgrid, both profiles
\* evaluated and stored, and the render has written its image.
C10_Witness ==
    /\ ret.op = "make_contourmap"
    /\ ret.status = "ok"
    /\ mesh # None
    /\ image # None
    /\ fields["density"].shape = resolution
    /\ fields["velocity3"].shape = resolution \o <<3>>

====
